---------------------------- MODULE Spec2Model ----------------------------
(***************************************************************************)
(* Finite-field and polynomial arithmetic of the reed-solomon crate        *)
(* (src/field.rs, src/field_element.rs, src/utils.rs, src/polynomial.rs).   *)
(*                                                                         *)
(* Scaling.  The crate's field has modulus 3*2^30+1 and stores values in   *)
(* u64 words.  TLC's integers are 32 bits wide, so the model keeps the     *)
(* shape of both numbers and scales the exponent: the modulus is           *)
(* 3*2^ModulusExp+1 and a machine word has 2*ModulusExp+4 bits (30 -> 64). *)
(* The ratio (modulus-1)^2 / 2^WordBits = 9/16 is the same as in the       *)
(* crate, so one product of two canonical values fits a word and the sum   *)
(* of two such products does not, exactly as with 3*2^30+1 and u64.        *)
(***************************************************************************)
EXTENDS Integers, Sequences, FiniteSets

VARIABLES
    call,             \* name of the operation that produced `out`
    out,              \* value returned by the last operation, or a panic
    a, b,             \* FieldElement operands
    raw,              \* the i128 handed to new_element
    exponent,         \* the u32 `n` handed to pow
    frame,            \* local variables of the loop being stepped through
    lhs, rhs,         \* Polynomial operands (self, rhs)
    coeffs,           \* the Vec<FieldElement> handed to a constructor
    x, y,             \* the sample vectors handed to interpolate
    overflow_checks,  \* build profile: TRUE panics on u64 overflow, FALSE wraps
    fed               \* number of results passed on as operands so far

vars == <<call, out, a, b, raw, exponent, frame, lhs, rhs, coeffs, x, y, overflow_checks, fed>>

(***************************************************************************)
(* Bounds of the model.                                                    *)
(***************************************************************************)
ModulusExp == 1     \* exponent of the modulus 3*2^ModulusExp+1 (30 in the crate)
MaxLen == 2         \* longest coefficient vector handed to Polynomial::new
MaxRaw == 2         \* new_element inputs range over -MaxRaw*modulus-1 .. MaxRaw*modulus+1
MaxK == 2           \* multiples k of the modulus added to a raw input
MaxSamples == 2     \* longest sample vector handed to interpolate
MaxFed == 1         \* results of operations passed on as operands of later ones
MaxExp == 4         \* largest exponent handed to pow

(***************************************************************************)
(* Machine words.                                                          *)
(***************************************************************************)
WordBits == 2 * ModulusExp + 4
WordMod == 2 ^ WordBits

\* no loop is being stepped through
Idle == [pc |-> "idle"]

Panic(msg) == [panic |-> msg]
IsPanic(v) == "panic" \in DOMAIN v

\* u64 `*` and `+`: a debug build panics on overflow, a release build wraps.
u64_mul(m, n) ==
    IF m * n < WordMod THEN [val |-> m * n]
    ELSE IF overflow_checks THEN Panic("attempt to multiply with overflow")
    ELSE [val |-> (m * n) % WordMod]

u64_add(m, n) ==
    IF m + n < WordMod THEN [val |-> m + n]
    ELSE IF overflow_checks THEN Panic("attempt to add with overflow")
    ELSE [val |-> (m + n) % WordMod]

(***************************************************************************)
(* GaloisField instances.  A field is known by its address: F1 and F2 are  *)
(* two instances made by galois_field!(), F3 is an instance built with a   *)
(* composite modulus through the struct's public fields.                   *)
(***************************************************************************)
Fields == {"F1", "F2", "F3"}
PrimeFields == {"F1", "F2"}
Null == "null"

galois_field ==
    [k_modulus |-> 3 * (2 ^ ModulusExp) + 1, generator_val |-> 5, zero |-> 0, one |-> 1]

GaloisField(f) ==
    IF f \in PrimeFields THEN galois_field
    ELSE [k_modulus |-> 3 * (2 ^ ModulusExp), generator_val |-> 5, zero |-> 0, one |-> 1]

k_modulus(f) == GaloisField(f).k_modulus

FieldElement(v, f) == [val |-> v, field |-> f]

\* i128 `%` (remainder of truncating division), for a positive divisor
i128_rem(n, m) == IF n >= 0 THEN n % m ELSE -((-n) % m)

rem_euclid_truncating(n, m) == i128_rem(n, m)

\* i128::rem_euclid
rem_euclid(n, m) ==
    LET r == i128_rem(n, m) IN IF r < 0 THEN r + m ELSE r

new_element(f, element_val) ==
    FieldElement(rem_euclid(element_val, k_modulus(f)), f)

zero(f) == FieldElement(GaloisField(f).zero, f)
one(f) == FieldElement(GaloisField(f).one, f)
generator(f) == FieldElement(GaloisField(f).generator_val, f)

(***************************************************************************)
(* FieldElement operations (src/field_element.rs).                         *)
(***************************************************************************)
FieldElement_eq_by_value(e1, e2) ==
    k_modulus(e1.field) = k_modulus(e2.field) /\ e1.val = e2.val

FieldElement_eq(e1, e2) == e1.field = e2.field /\ e1.val = e2.val

\* `(u64 expression) % k_modulus`, or the panic of the expression
reduce(w, f) == IF IsPanic(w) THEN w ELSE FieldElement(w.val % k_modulus(f), f)

FieldElement_add(e1, e2) ==
    IF e1.field = e2.field
    THEN reduce(u64_add(e1.val, e2.val), e1.field)
    ELSE Panic("Elements can't be summed cause they lay in defferent fields")

FieldElement_neg(e) == new_element(e.field, GaloisField(e.field).zero - e.val)

FieldElement_sub_wrapping(e1, e2) ==
    IF e1.field = e2.field
    THEN FieldElement(((e1.val - e2.val) % WordMod) % k_modulus(e1.field), e1.field)
    ELSE Panic("Elements can't be substracted cause they lay in defferent fields")

FieldElement_sub(e1, e2) ==
    IF e1.field = e2.field
    THEN new_element(e1.field, e1.val - e2.val)
    ELSE Panic("Elements can't be substracted cause they lay in defferent fields")

\* (an operand that is itself a panic stands for the unwinding already under
\* way: the operation is never reached)
FieldElement_mul(e1, e2) ==
    IF IsPanic(e1) THEN e1
    ELSE IF IsPanic(e2) THEN e2
    ELSE IF e1.field = e2.field
    THEN reduce(u64_mul(e1.val, e2.val), e1.field)
    ELSE Panic("Elements can't be multiplied cause they lay in defferent fields")

\* the while loop of inverse: the extended Euclidean algorithm on i128.
\* r and new_r stay non-negative, so `/` is \div.
RECURSIVE inverse_loop(_, _, _, _, _)
inverse_loop(t, new_t, r, new_r, zero_) ==
    IF new_r = zero_ THEN [t |-> t, r |-> r]
    ELSE LET quotient == r \div new_r
         IN  inverse_loop(new_t, t - quotient * new_t, new_r, r - quotient * new_r, zero_)

inverse_unasserted(e) ==
    LET F == GaloisField(e.field)
        fin == inverse_loop(F.zero, F.one, F.k_modulus, e.val, F.zero)
    IN  new_element(e.field, fin.t)

inverse_wrong_sign(e) ==
    LET F == GaloisField(e.field)
        fin == inverse_loop(F.zero, F.one, F.k_modulus, e.val, F.zero)
    IN  IF fin.r # F.one THEN Panic("assertion failed: r == one")
        ELSE new_element(e.field, 0 - fin.t)

inverse(e) ==
    LET F == GaloisField(e.field)
        fin == inverse_loop(F.zero, F.one, F.k_modulus, e.val, F.zero)
    IN  IF fin.r # F.one THEN Panic("assertion failed: r == one")
        ELSE new_element(e.field, fin.t)

FieldElement_div(e1, e2) ==
    IF e1.field = e2.field
    THEN FieldElement_mul(e1, inverse(e2))
    ELSE Panic("Elements can't be divided cause they lay in defferent fields")

FieldElement_mul_assign(e1, e2) ==
    IF IsPanic(e1) THEN e1
    ELSE IF IsPanic(e2) THEN e2
    ELSE IF e1.field = e2.field
    THEN reduce(u64_mul(e1.val, e2.val), e1.field)
    ELSE Panic("Elements can't be multiplied cause they lay in defferent fields")

FieldElement_add_assign(e1, e2) ==
    IF IsPanic(e1) THEN e1
    ELSE IF IsPanic(e2) THEN e2
    ELSE IF e1.field = e2.field
    THEN reduce(u64_add(e1.val, e2.val), e1.field)
    ELSE Panic("Elements can't be multiplied cause they lay in defferent fields")

FieldElement_sub_assign(e1, e2) ==
    IF IsPanic(e1) THEN e1
    ELSE IF IsPanic(e2) THEN e2
    ELSE IF e1.field = e2.field
    THEN FieldElement(rem_euclid(e1.val - e2.val, k_modulus(e1.field)), e1.field)
    ELSE Panic("Elements can't be multiplied cause they lay in defferent fields")

RECURSIVE pow_loop_until_one(_, _, _)
pow_loop_until_one(n, cur_pow, res) ==
    IF IsPanic(res) THEN res
    ELSE IF IsPanic(cur_pow) THEN cur_pow
    ELSE IF n > 1
    THEN pow_loop_until_one(n \div 2, FieldElement_mul_assign(cur_pow, cur_pow),
                            IF n % 2 # 0 THEN FieldElement_mul_assign(res, cur_pow) ELSE res)
    ELSE res

\* the while loop of pow: square-and-multiply on the u32 n
RECURSIVE pow_loop(_, _, _)
pow_loop(n, cur_pow, res) ==
    IF IsPanic(res) THEN res
    ELSE IF IsPanic(cur_pow) THEN cur_pow
    ELSE IF n > 0
    THEN pow_loop(n \div 2, FieldElement_mul_assign(cur_pow, cur_pow),
                  IF n % 2 # 0 THEN FieldElement_mul_assign(res, cur_pow) ELSE res)
    ELSE res

pow(self, n) == pow_loop(n, self, one(self.field))

(***************************************************************************)
(* Coefficient-vector helpers (src/utils.rs).                              *)
(***************************************************************************)
Max(m, n) == IF m >= n THEN m ELSE n

RECURSIVE remove_trailing_elements(_, _)
remove_trailing_elements(cs, trailing) ==
    IF cs = <<>> THEN <<>>
    ELSE IF FieldElement_eq(cs[Len(cs)], trailing)
         THEN remove_trailing_elements(SubSeq(cs, 1, Len(cs) - 1), trailing)
         ELSE cs

\* a call through the fn pointer `op`: the closures |a, b| a + b and
\* |a, b| a - b that Polynomial passes are known by the tags "+" and "-"
op_call(f, e1, e2) ==
    IF f = "+" THEN FieldElement_add(e1, e2) ELSE FieldElement_sub(e1, e2)

zip_shortest_with_op(l, r, f, fill_value) ==
    [i \in 1..(IF Len(l) <= Len(r) THEN Len(l) ELSE Len(r)) |-> op_call(f, l[i], r[i])]

zip_longest_fill_second(l, r, f, fill_value) ==
    [i \in 1..Max(Len(l), Len(r)) |->
        IF i <= Len(l) /\ i <= Len(r) THEN op_call(f, l[i], r[i])
        ELSE IF i <= Len(l) THEN op_call(f, l[i], fill_value)
        ELSE op_call(f, r[i], fill_value)]

zip_longest_with_op(l, r, f, fill_value) ==
    [i \in 1..Max(Len(l), Len(r)) |->
        IF i <= Len(l) /\ i <= Len(r) THEN op_call(f, l[i], r[i])
        ELSE IF i <= Len(l) THEN op_call(f, l[i], fill_value)
        ELSE op_call(f, fill_value, r[i])]

\* the panic that unwinds a computation producing the elements of cs in order
HasPanic(cs) == \E i \in DOMAIN cs : IsPanic(cs[i])
FirstPanic(cs) ==
    cs[CHOOSE i \in DOMAIN cs : IsPanic(cs[i]) /\ \A j \in 1..(i - 1) : ~IsPanic(cs[j])]

(***************************************************************************)
(* Polynomial (src/polynomial.rs).                                         *)
(***************************************************************************)
Polynomial(cs, f, v) == [coeffs |-> cs, field |-> f, var |-> v]

Polynomial_x(f) == Polynomial(<<zero(f), one(f)>>, f, "x")

get_field_ptr(cs) == IF cs = <<>> THEN Null ELSE cs[1].field

Polynomial_new(cs, f, v) ==
    IF \E i \in DOMAIN cs : cs[i].field # get_field_ptr(cs)
    THEN Panic("Not all coefficients of the constructing polynomial are lay in the same field!")
    ELSE Polynomial(remove_trailing_elements(cs, zero(f)), f, v)

Polynomial_from(cs, other) == Polynomial_new(cs, other.field, other.var)

Polynomial_empty(other) == Polynomial_new(<<>>, other.field, other.var)

deg(p) == Len(p.coeffs) - 1

non_empty(p) == p.coeffs # <<>>

monomial(d, coef, f) == Polynomial_new([i \in 1..d |-> zero(f)] \o <<coef>>, f, "x")

Unit == [unit |-> TRUE]

check_bin_op_args(l, r) ==
    IF l.field # r.field THEN Panic("Polynomials are biult over different fields!")
    ELSE IF l.var # r.var THEN Panic("Polynomials have different variable names!")
    ELSE Unit

\* the struct literal of bin_op around the vector cs, unless computing cs panicked
bin_op_result(cs, l) ==
    IF HasPanic(cs) THEN FirstPanic(cs) ELSE Polynomial(cs, l.field, l.var)

bin_op(l, r, f) ==
    IF IsPanic(check_bin_op_args(l, r)) THEN check_bin_op_args(l, r)
    ELSE bin_op_result(zip_longest_with_op(l.coeffs, r.coeffs, f, zero(l.field)), l)

\* PartialEq for Polynomial: the stored vectors are compared, element by element
Polynomial_eq(p, q) ==
    /\ Len(p.coeffs) = Len(q.coeffs)
    /\ \A i \in DOMAIN p.coeffs : FieldElement_eq(p.coeffs[i], q.coeffs[i])

Polynomial_add(l, r) == bin_op(l, r, "+")

Polynomial_sub(l, r) == bin_op(l, r, "-")

Polynomial_neg(p) == Polynomial_sub(Polynomial_new(<<>>, p.field, p.var), p)

\* the two nested loops of mul over the raw u64 values; i and j count from 1,
\* so res_raw_coeffs[i + j] of the code is res[i + j - 1]
RECURSIVE mul_loop(_, _, _, _, _)
mul_loop(lhs_raw_coeffs, rhs_raw_coeffs, res, i, j) ==
    IF i > Len(lhs_raw_coeffs) THEN [vals |-> res]
    ELSE IF j > Len(rhs_raw_coeffs) THEN mul_loop(lhs_raw_coeffs, rhs_raw_coeffs, res, i + 1, 1)
    ELSE LET prod == u64_mul(lhs_raw_coeffs[i], rhs_raw_coeffs[j])
         IN  IF IsPanic(prod) THEN prod
             ELSE LET sum == u64_add(res[i + j - 1], prod.val)
                  IN  IF IsPanic(sum) THEN sum
                      ELSE mul_loop(lhs_raw_coeffs, rhs_raw_coeffs,
                                    [res EXCEPT ![i + j - 1] = sum.val], i, j + 1)

\* the Polynomial::new that ends mul, over the reduced accumulators
mul_result(fin, l) ==
    IF IsPanic(fin) THEN fin
    ELSE Polynomial_new([i \in 1..Len(fin.vals) |-> new_element(l.field, fin.vals[i])],
                        l.field, l.var)

Polynomial_mul(l, r) ==
    LET lhs_raw_coeffs == [i \in 1..Len(l.coeffs) |-> l.coeffs[i].val]
        rhs_raw_coeffs == [i \in 1..Len(r.coeffs) |-> r.coeffs[i].val]
        res_len == deg(l) + deg(r) + 1
    IN  IF IsPanic(check_bin_op_args(l, r)) THEN check_bin_op_args(l, r)
        ELSE mul_result(mul_loop(lhs_raw_coeffs, rhs_raw_coeffs,
                                 [i \in 1..Max(res_len, 0) |-> 0], 1, 1), l)

\* `(res * rhs.clone()) + Polynomial::new(vec![coef], ..)` given the product
compose_step(prod, c) == IF IsPanic(prod) THEN prod ELSE Polynomial_add(prod, c)

\* the loop of compose, from the highest coefficient (index i) down
RECURSIVE compose_loop(_, _, _, _)
compose_loop(self, r, res, i) ==
    IF i = 0 \/ IsPanic(res) THEN res
    ELSE compose_loop(self, r,
                      compose_step(Polynomial_mul(res, r),
                                   Polynomial_new(<<self.coeffs[i]>>, self.field, self.var)),
                      i - 1)

compose(self, r) == compose_loop(self, r, Polynomial_empty(self), Len(self.coeffs))

\* the `for (i, coef) in rhs_coeffs.iter().enumerate()` loop of qdiv_ as the
\* vector it leaves in rem: positions offset .. offset + len(rhs_coeffs) - 1
\* (counted from 0) are decreased by tmp * coef
qdiv_for(rem, offset, tmp, rhs_coeffs) ==
    [k \in DOMAIN rem |->
        IF k > offset /\ k <= offset + Len(rhs_coeffs)
        THEN FieldElement_sub_assign(rem[k], FieldElement_mul(tmp, rhs_coeffs[k - offset]))
        ELSE rem[k]]

\* the value of last_non_zero after that loop: deg_dif - 1, overwritten by
\* every position (from 0) the loop found different from zero, in ascending order
last_non_zero(rem, deg_dif, f) ==
    LET found == {i \in deg_dif..(Len(rem) - 1) : ~FieldElement_eq(rem[i + 1], zero(f))}
    IN  IF found = {} THEN deg_dif - 1
        ELSE CHOOSE i \in found : \A j \in found : j <= i

qdiv_truncate_never(rem, deg_dif, f) == rem

\* rem.truncate((last_non_zero + 1) as usize)
qdiv_truncate(rem, deg_dif, f) ==
    IF HasPanic(rem) THEN rem
    ELSE SubSeq(rem, 1, last_non_zero(rem, deg_dif, f) + 1)

RECURSIVE qdiv_while_off_by_one(_, _, _, _, _)
qdiv_while_off_by_one(rem, quotient, rhs_coeffs, g_msc_inv, f) ==
    LET deg_dif == Len(rem) - Len(rhs_coeffs)
        tmp == FieldElement_mul(rem[Len(rem)], g_msc_inv)
    IN  IF HasPanic(rem) \/ HasPanic(quotient) \/ deg_dif <= 0
        THEN [rem |-> rem, quotient |-> quotient]
        ELSE qdiv_while_off_by_one(
                 qdiv_truncate(qdiv_for(rem, deg_dif, tmp, rhs_coeffs), deg_dif, f),
                 [quotient EXCEPT ![deg_dif + 1] = FieldElement_add_assign(@, tmp)],
                 rhs_coeffs, g_msc_inv, f)

\* `while deg_dif >= 0`; deg_dif is rem.len() - rhs_coeffs.len() at the head of
\* every pass, and a pass that panicked ends the loop
RECURSIVE qdiv_while(_, _, _, _, _)
qdiv_while(rem, quotient, rhs_coeffs, g_msc_inv, f) ==
    LET deg_dif == Len(rem) - Len(rhs_coeffs)
        tmp == FieldElement_mul(rem[Len(rem)], g_msc_inv)
    IN  IF HasPanic(rem) \/ HasPanic(quotient) \/ deg_dif < 0
        THEN [rem |-> rem, quotient |-> quotient]
        ELSE qdiv_while(
                 qdiv_truncate(qdiv_for(rem, deg_dif, tmp, rhs_coeffs), deg_dif, f),
                 [quotient EXCEPT ![deg_dif + 1] = FieldElement_add_assign(@, tmp)],
                 rhs_coeffs, g_msc_inv, f)

\* the pair qdiv_ returns, unless building one of its halves panicked
qdiv_pair(quot, remainder) ==
    IF IsPanic(quot) THEN quot
    ELSE IF IsPanic(remainder) THEN remainder
    ELSE [quot |-> quot, rem |-> remainder]

\* the tail of qdiv_ after the loop has left fin.quotient and fin.rem
qdiv_result(fin, self) ==
    IF HasPanic(fin.quotient) THEN FirstPanic(fin.quotient)
    ELSE IF HasPanic(fin.rem) THEN FirstPanic(fin.rem)
    ELSE qdiv_pair(Polynomial_from(remove_trailing_elements(fin.quotient, zero(self.field)),
                                   self),
                   Polynomial_from(fin.rem, self))

\* the else branch of qdiv_: the division of a non-empty lhs_coeffs
qdiv_division(lhs_coeffs, rhs_coeffs, g_msc_inv, self) ==
    LET deg_dif == Len(lhs_coeffs) - Len(rhs_coeffs)
        quotient_len == IF deg_dif >= -1 THEN deg_dif + 1 ELSE 0
    IN  IF IsPanic(g_msc_inv) THEN g_msc_inv
        ELSE qdiv_result(qdiv_while(lhs_coeffs, [i \in 1..quotient_len |-> zero(self.field)],
                                    rhs_coeffs, g_msc_inv, self.field),
                         self)

qdiv_dividend_first(self, r) ==
    LET rhs_coeffs == remove_trailing_elements(r.coeffs, zero(r.field))
        lhs_coeffs == remove_trailing_elements(self.coeffs, zero(self.field))
    IN  IF lhs_coeffs = <<>>
        THEN [quot |-> Polynomial_empty(self), rem |-> Polynomial_empty(self)]
        ELSE IF rhs_coeffs = <<>> THEN Panic("assertion failed: !rhs_coeffs.is_empty()")
        ELSE qdiv_division(lhs_coeffs, rhs_coeffs, inverse(rhs_coeffs[Len(rhs_coeffs)]), self)

qdiv_(self, r) ==
    LET rhs_coeffs == remove_trailing_elements(r.coeffs, zero(r.field))
        lhs_coeffs == remove_trailing_elements(self.coeffs, zero(self.field))
    IN  IF rhs_coeffs = <<>> THEN Panic("assertion failed: !rhs_coeffs.is_empty()")
        ELSE IF lhs_coeffs = <<>>
             THEN [quot |-> Polynomial_empty(self), rem |-> Polynomial_empty(self)]
        ELSE qdiv_division(lhs_coeffs, rhs_coeffs, inverse(rhs_coeffs[Len(rhs_coeffs)]), self)

qdiv(self, r) ==
    IF IsPanic(check_bin_op_args(self, r)) THEN check_bin_op_args(self, r)
    ELSE qdiv_(self, r)

\* the `if rem.coeffs.is_empty()` of div on the pair qdiv_ returned
div_result(qr) ==
    IF IsPanic(qr) THEN qr
    ELSE IF qr.rem.coeffs = <<>> THEN qr.quot
    ELSE Panic("Polynomials are not divisible.")

Polynomial_div(self, r) ==
    IF IsPanic(check_bin_op_args(self, r)) THEN check_bin_op_args(self, r)
    ELSE div_result(qdiv_(self, r))

calculate_lagrange_polynomials(xs) == Panic("not implemented")

interpolate_poly_lagrange(ys, polynomials) ==
    IF IsPanic(polynomials) THEN polynomials ELSE Panic("not implemented")

interpolate_any_field(xs, ys) ==
    IF xs = <<>> \/ ys = <<>> \/ Len(xs) # Len(ys)
    THEN Panic("Impossible to establish a one-to-one correspondence between the definition and value areas.")
    ELSE interpolate_poly_lagrange(ys, calculate_lagrange_polynomials(xs))

interpolate(xs, ys) ==
    IF xs = <<>> \/ ys = <<>> \/ Len(xs) # Len(ys)
    THEN Panic("Impossible to establish a one-to-one correspondence between the definition and value areas.")
    ELSE IF \E i \in DOMAIN (xs \o ys) : (xs \o ys)[i].field # xs[1].field
    THEN Panic("Not all elements are lay in the same field.")
    ELSE interpolate_poly_lagrange(ys, calculate_lagrange_polynomials(xs))

(***************************************************************************)
(* Inputs.                                                                 *)
(***************************************************************************)
SeqsUpTo(S, n) == UNION {[1..k -> S] : k \in 0..n}

\* every canonical element of every field instance
Elements == {FieldElement(v, f) : v \in 0..(3 * (2 ^ ModulusExp)), f \in Fields} \
            {FieldElement(3 * (2 ^ ModulusExp), "F3")}

RawInts == (-(MaxRaw * k_modulus("F1")) - 1)..(MaxRaw * k_modulus("F1") + 1)

\* coefficient values of the operands: zero, a value with an inverse other
\* than itself, and the largest canonical value
CoefVals == {0, 2, k_modulus("F1") - 1}

\* operands built by Polynomial::new: every vector over CoefVals in F1 with
\* the label "x", the square [1, 2, 1] of the two-term vector of largest
\* values, and short ones over another instance, with another label, and
\* with coefficients of an instance other than the one passed
OperandArgs ==
    {<<cs, "F1", "x">> : cs \in SeqsUpTo({FieldElement(v, "F1") : v \in CoefVals}, MaxLen)}
    \cup {<< <<FieldElement(1, "F1"), FieldElement(2, "F1"), FieldElement(1, "F1")>>, "F1", "x">>}
    \cup {<<cs, "F2", "x">> : cs \in SeqsUpTo({one("F2")}, 1)}
    \cup {<<cs, "F1", "y">> : cs \in SeqsUpTo({one("F1")}, 1)}
    \cup {<< <<one("F2")>>, "F1", "x">>}

Operands == {Polynomial_new(t[1], t[2], t[3]) : t \in OperandArgs}

CoeffVecs == SeqsUpTo({FieldElement(v, f) : v \in {0, 1}, f \in PrimeFields}, MaxLen)

SampleVecs == SeqsUpTo({FieldElement(v, "F1") : v \in {0, 1, 2}} \cup {one("F2")}, MaxSamples)

Vars == {"x", "y"}

IsPolynomial(v) == "coeffs" \in DOMAIN v
IsQuotRem(v) == "quot" \in DOMAIN v

(***************************************************************************)
(* Polynomial operations on the operands lhs and rhs.                      *)
(***************************************************************************)
Init ==
    /\ call = "init"
    /\ out = Unit
    /\ a = zero("F1")
    /\ b = zero("F1")
    /\ raw = 0
    /\ exponent = 0
    /\ frame = Idle
    /\ lhs \in Operands
    /\ rhs \in Operands
    /\ coeffs = <<>>
    /\ x = <<>>
    /\ y = <<>>
    /\ overflow_checks \in BOOLEAN
    /\ fed = 0

\* the operands are in hand: constructed, or passed on from an earlier call,
\* and not yet moved into an operation
Ready == call \in {"init", "feed"}

Add ==
    /\ Ready
    /\ call' = "add"
    /\ out' = Polynomial_add(lhs, rhs)
    /\ UNCHANGED <<a, b, raw, exponent, frame, lhs, rhs, coeffs, x, y, overflow_checks, fed>>

Sub ==
    /\ Ready
    /\ call' = "sub"
    /\ out' = Polynomial_sub(lhs, rhs)
    /\ UNCHANGED <<a, b, raw, exponent, frame, lhs, rhs, coeffs, x, y, overflow_checks, fed>>

Neg ==
    /\ Ready
    /\ call' = "neg"
    /\ out' = Polynomial_neg(lhs)
    /\ UNCHANGED <<a, b, raw, exponent, frame, lhs, rhs, coeffs, x, y, overflow_checks, fed>>

Mul ==
    /\ Ready
    /\ call' = "mul"
    /\ out' = Polynomial_mul(lhs, rhs)
    /\ UNCHANGED <<a, b, raw, exponent, frame, lhs, rhs, coeffs, x, y, overflow_checks, fed>>

Compose ==
    /\ Ready
    /\ call' = "compose"
    /\ out' = compose(lhs, rhs)
    /\ UNCHANGED <<a, b, raw, exponent, frame, lhs, rhs, coeffs, x, y, overflow_checks, fed>>

Qdiv ==
    /\ Ready
    /\ call' = "qdiv"
    /\ out' = qdiv(lhs, rhs)
    /\ UNCHANGED <<a, b, raw, exponent, frame, lhs, rhs, coeffs, x, y, overflow_checks, fed>>

Div ==
    /\ Ready
    /\ call' = "div"
    /\ out' = Polynomial_div(lhs, rhs)
    /\ UNCHANGED <<a, b, raw, exponent, frame, lhs, rhs, coeffs, x, y, overflow_checks, fed>>

\* the results a caller can pass on: a returned polynomial, or either half of
\* the pair returned by qdiv, of at most MaxLen + 1 stored coefficients (the
\* longest result of an operation on two constructed operands); the result is
\* moved into the operand
Passable ==
    {p \in (IF IsPolynomial(out) THEN {out}
            ELSE IF IsQuotRem(out) THEN {out.quot, out.rem}
            ELSE {}) : Len(p.coeffs) <= MaxLen + 1}

FeedLhs ==
    /\ fed < MaxFed
    /\ \E p \in Passable : lhs' = p
    /\ fed' = fed + 1
    /\ call' = "feed"
    /\ out' = Unit
    /\ UNCHANGED <<a, b, raw, exponent, frame, rhs, coeffs, x, y, overflow_checks>>

FeedRhs ==
    /\ fed < MaxFed
    /\ \E p \in Passable : rhs' = p
    /\ fed' = fed + 1
    /\ call' = "feed"
    /\ out' = Unit
    /\ UNCHANGED <<a, b, raw, exponent, frame, lhs, coeffs, x, y, overflow_checks>>

Next == Add \/ Sub \/ Neg \/ Mul \/ Compose \/ Qdiv \/ Div \/ FeedLhs \/ FeedRhs

Spec == Init /\ [][Next]_vars

(***************************************************************************)
(* Constructors applied to the vector coeffs.                              *)
(***************************************************************************)
InitNew ==
    /\ call = "init"
    /\ out = Unit
    /\ a = zero("F1")
    /\ b = zero("F1")
    /\ raw = 0
    /\ exponent = 0
    /\ frame = Idle
    /\ lhs \in {Polynomial_x(f) : f \in PrimeFields}
    /\ rhs = Polynomial_x("F1")
    /\ coeffs \in CoeffVecs
    /\ x = <<>>
    /\ y = <<>>
    /\ overflow_checks = TRUE
    /\ fed = 0

New ==
    \E f \in PrimeFields, v \in Vars :
        /\ call' = "new"
        /\ out' = Polynomial_new(coeffs, f, v)
        /\ UNCHANGED <<a, b, raw, exponent, frame, lhs, rhs, coeffs, x, y, overflow_checks, fed>>

From ==
    /\ call' = "from"
    /\ out' = Polynomial_from(coeffs, lhs)
    /\ UNCHANGED <<a, b, raw, exponent, frame, lhs, rhs, coeffs, x, y, overflow_checks, fed>>

Empty ==
    /\ call' = "empty"
    /\ out' = Polynomial_empty(lhs)
    /\ UNCHANGED <<a, b, raw, exponent, frame, lhs, rhs, coeffs, x, y, overflow_checks, fed>>

X ==
    \E f \in PrimeFields :
        /\ call' = "x"
        /\ out' = Polynomial_x(f)
        /\ UNCHANGED <<a, b, raw, exponent, frame, lhs, rhs, coeffs, x, y, overflow_checks, fed>>

Monomial ==
    \E d \in 0..MaxLen, v \in CoefVals, f \in PrimeFields :
        /\ call' = "monomial"
        /\ out' = monomial(d, FieldElement(v, f), f)
        /\ UNCHANGED <<a, b, raw, exponent, frame, lhs, rhs, coeffs, x, y, overflow_checks, fed>>

NextNew == New \/ From \/ Empty \/ X \/ Monomial

SpecNew == InitNew /\ [][NextNew]_vars

(***************************************************************************)
(* interpolate applied to the sample vectors x and y.                      *)
(***************************************************************************)
InitInterpolate ==
    /\ call = "init"
    /\ out = Unit
    /\ a = zero("F1")
    /\ b = zero("F1")
    /\ raw = 0
    /\ exponent = 0
    /\ frame = Idle
    /\ lhs = Polynomial_x("F1")
    /\ rhs = Polynomial_x("F1")
    /\ coeffs = <<>>
    /\ x \in SampleVecs
    /\ y \in SampleVecs
    /\ overflow_checks = TRUE
    /\ fed = 0

Interpolate ==
    /\ call' = "interpolate"
    /\ out' = interpolate(x, y)
    /\ UNCHANGED <<a, b, raw, exponent, frame, lhs, rhs, coeffs, x, y, overflow_checks, fed>>

NextInterpolate == Interpolate

SpecInterpolate == InitInterpolate /\ [][NextInterpolate]_vars

(***************************************************************************)
(* FieldElement operations on the operands a and b.                        *)
(***************************************************************************)
InitField ==
    /\ call = "init"
    /\ out = Unit
    /\ a \in Elements
    /\ b \in Elements
    /\ raw = 0
    /\ exponent = 0
    /\ frame = Idle
    /\ lhs = Polynomial_x("F1")
    /\ rhs = Polynomial_x("F1")
    /\ coeffs = <<>>
    /\ x = <<>>
    /\ y = <<>>
    /\ overflow_checks \in BOOLEAN
    /\ fed = 0

FeAdd ==
    /\ call' = "fe_add"
    /\ out' = FieldElement_add(a, b)
    /\ UNCHANGED <<a, b, raw, exponent, frame, lhs, rhs, coeffs, x, y, overflow_checks, fed>>

FeSub ==
    /\ call' = "fe_sub"
    /\ out' = FieldElement_sub(a, b)
    /\ UNCHANGED <<a, b, raw, exponent, frame, lhs, rhs, coeffs, x, y, overflow_checks, fed>>

FeNeg ==
    /\ call' = "fe_neg"
    /\ out' = FieldElement_neg(a)
    /\ UNCHANGED <<a, b, raw, exponent, frame, lhs, rhs, coeffs, x, y, overflow_checks, fed>>

FeMul ==
    /\ call' = "fe_mul"
    /\ out' = FieldElement_mul(a, b)
    /\ UNCHANGED <<a, b, raw, exponent, frame, lhs, rhs, coeffs, x, y, overflow_checks, fed>>

FeDiv ==
    /\ call' = "fe_div"
    /\ out' = FieldElement_div(a, b)
    /\ UNCHANGED <<a, b, raw, exponent, frame, lhs, rhs, coeffs, x, y, overflow_checks, fed>>

Inverse ==
    /\ call' = "inverse"
    /\ out' = inverse(a)
    /\ UNCHANGED <<a, b, raw, exponent, frame, lhs, rhs, coeffs, x, y, overflow_checks, fed>>

\* `self op= rhs`: self keeps its value when the operation panics, and the
\* call returns ()
assigned(self, new_self) == IF IsPanic(new_self) THEN self ELSE new_self
returned(new_self) == IF IsPanic(new_self) THEN new_self ELSE Unit

FeMulAssign ==
    /\ call' = "fe_mul_assign"
    /\ a' = assigned(a, FieldElement_mul_assign(a, b))
    /\ out' = returned(FieldElement_mul_assign(a, b))
    /\ UNCHANGED <<b, raw, exponent, frame, lhs, rhs, coeffs, x, y, overflow_checks, fed>>

FeAddAssign ==
    /\ call' = "fe_add_assign"
    /\ a' = assigned(a, FieldElement_add_assign(a, b))
    /\ out' = returned(FieldElement_add_assign(a, b))
    /\ UNCHANGED <<b, raw, exponent, frame, lhs, rhs, coeffs, x, y, overflow_checks, fed>>

FeSubAssign ==
    /\ call' = "fe_sub_assign"
    /\ a' = assigned(a, FieldElement_sub_assign(a, b))
    /\ out' = returned(FieldElement_sub_assign(a, b))
    /\ UNCHANGED <<b, raw, exponent, frame, lhs, rhs, coeffs, x, y, overflow_checks, fed>>

FeEq ==
    /\ call' = "fe_eq"
    /\ out' = [eq |-> FieldElement_eq(a, b)]
    /\ UNCHANGED <<a, b, raw, exponent, frame, lhs, rhs, coeffs, x, y, overflow_checks, fed>>

NextField ==
    FeAdd \/ FeSub \/ FeNeg \/ FeMul \/ FeDiv \/ Inverse
    \/ FeMulAssign \/ FeAddAssign \/ FeSubAssign \/ FeEq

SpecField == InitField /\ [][NextField]_vars

(***************************************************************************)
(* pow applied to the element a and the exponent.                          *)
(***************************************************************************)
InitPow ==
    /\ call = "init"
    /\ out = Unit
    /\ a \in Elements
    /\ b = zero("F1")
    /\ raw = 0
    /\ exponent \in 0..MaxExp
    /\ frame = Idle
    /\ lhs = Polynomial_x("F1")
    /\ rhs = Polynomial_x("F1")
    /\ coeffs = <<>>
    /\ x = <<>>
    /\ y = <<>>
    /\ overflow_checks \in BOOLEAN
    /\ fed = 0

Pow ==
    /\ call' = "pow"
    /\ out' = pow(a, exponent)
    /\ UNCHANGED <<a, b, raw, exponent, frame, lhs, rhs, coeffs, x, y, overflow_checks, fed>>

NextPow == Pow

SpecPow == InitPow /\ [][NextPow]_vars

(***************************************************************************)
(* new_element applied to the integer raw.                                 *)
(***************************************************************************)
InitNewElement ==
    /\ call = "init"
    /\ out = Unit
    /\ a = zero("F1")
    /\ b = zero("F1")
    /\ raw \in RawInts
    /\ exponent = 0
    /\ frame = Idle
    /\ lhs = Polynomial_x("F1")
    /\ rhs = Polynomial_x("F1")
    /\ coeffs = <<>>
    /\ x = <<>>
    /\ y = <<>>
    /\ overflow_checks = TRUE
    /\ fed = 0

NewElement ==
    \E f \in Fields :
        /\ call' = "new_element"
        /\ out' = new_element(f, raw)
        /\ UNCHANGED <<a, b, raw, exponent, frame, lhs, rhs, coeffs, x, y, overflow_checks, fed>>

NextNewElement == NewElement

SpecNewElement == InitNewElement /\ [][NextNewElement]_vars

(***************************************************************************)
(* The loops of inverse, pow and qdiv_, one pass per step.  frame holds    *)
(* the local variables of the loop that is running.                        *)
(***************************************************************************)
Done == [pc |-> "done"]

\* dividends and divisors of the stepped division: the constructed operands,
\* and a pair whose first pass cancels three leading terms at once
LongDividend ==
    Polynomial_new(<<FieldElement(2, "F1"), zero("F1"), one("F1"), one("F1"), one("F1")>>,
                   "F1", "x")
LongDivisor == Polynomial_new(<<one("F1"), one("F1"), one("F1")>>, "F1", "x")

InitLoops ==
    /\ call = "init"
    /\ out = Unit
    /\ b = zero("F1")
    /\ raw = 0
    /\ frame = Idle
    /\ coeffs = <<>>
    /\ x = <<>>
    /\ y = <<>>
    /\ overflow_checks \in BOOLEAN
    /\ fed = 0
    /\ \/ /\ a \in Elements
          /\ exponent \in 0..MaxExp
          /\ lhs = Polynomial_x("F1")
          /\ rhs = Polynomial_x("F1")
       \/ /\ a = zero("F1")
          /\ exponent = 0
          /\ lhs \in Operands \cup {LongDividend}
          /\ rhs \in Operands \cup {LongDivisor}

\* inverse: the locals before the while loop, one pass, and the code after it
InverseEnter ==
    /\ frame = Idle
    /\ frame' = [pc |-> "inverse",
                 t |-> GaloisField(a.field).zero, new_t |-> GaloisField(a.field).one,
                 r |-> k_modulus(a.field), new_r |-> a.val]
    /\ UNCHANGED <<call, out, a, b, raw, exponent, lhs, rhs, coeffs, x, y, overflow_checks, fed>>

inverse_pass(fr) ==
    [fr EXCEPT !.t = fr.new_t,
               !.new_t = fr.t - (fr.r \div fr.new_r) * fr.new_t,
               !.r = fr.new_r,
               !.new_r = fr.r - (fr.r \div fr.new_r) * fr.new_r]

InverseStep ==
    /\ frame.pc = "inverse"
    /\ frame.new_r # GaloisField(a.field).zero
    /\ frame' = inverse_pass(frame)
    /\ UNCHANGED <<call, out, a, b, raw, exponent, lhs, rhs, coeffs, x, y, overflow_checks, fed>>

InverseExit ==
    /\ frame.pc = "inverse"
    /\ frame.new_r = GaloisField(a.field).zero
    /\ frame' = Done
    /\ call' = "inverse"
    /\ out' = IF frame.r # GaloisField(a.field).one THEN Panic("assertion failed: r == one")
              ELSE new_element(a.field, frame.t)
    /\ UNCHANGED <<a, b, raw, exponent, lhs, rhs, coeffs, x, y, overflow_checks, fed>>

\* pow: the locals before the while loop, one pass, and the return of res
PowEnter ==
    /\ frame = Idle
    /\ frame' = [pc |-> "pow", n |-> exponent, cur_pow |-> a, res |-> one(a.field)]
    /\ UNCHANGED <<call, out, a, b, raw, exponent, lhs, rhs, coeffs, x, y, overflow_checks, fed>>

pow_pass(fr) ==
    [fr EXCEPT !.res = IF fr.n % 2 # 0 THEN FieldElement_mul_assign(fr.res, fr.cur_pow)
                       ELSE fr.res,
               !.n = fr.n \div 2,
               !.cur_pow = FieldElement_mul_assign(fr.cur_pow, fr.cur_pow)]

pow_running(fr) == fr.n > 0 /\ ~IsPanic(fr.res) /\ ~IsPanic(fr.cur_pow)

PowStep ==
    /\ frame.pc = "pow"
    /\ pow_running(frame)
    /\ frame' = pow_pass(frame)
    /\ UNCHANGED <<call, out, a, b, raw, exponent, lhs, rhs, coeffs, x, y, overflow_checks, fed>>

PowExit ==
    /\ frame.pc = "pow"
    /\ ~pow_running(frame)
    /\ frame' = Done
    /\ call' = "pow"
    /\ out' = IF IsPanic(frame.cur_pow) /\ ~IsPanic(frame.res) THEN frame.cur_pow
              ELSE frame.res
    /\ UNCHANGED <<a, b, raw, exponent, lhs, rhs, coeffs, x, y, overflow_checks, fed>>

\* qdiv: the code of qdiv and qdiv_ before the while loop.  The loop is
\* entered with a non-empty dividend and an inverse of the divisor's leading
\* coefficient; every other path returns or panics at once.
qdiv_enters(self, r) ==
    /\ ~IsPanic(check_bin_op_args(self, r))
    /\ remove_trailing_elements(r.coeffs, zero(r.field)) # <<>>
    /\ remove_trailing_elements(self.coeffs, zero(self.field)) # <<>>
    /\ ~IsPanic(inverse(remove_trailing_elements(r.coeffs, zero(r.field))
                           [Len(remove_trailing_elements(r.coeffs, zero(r.field)))]))

quotient_len(deg_dif) == IF deg_dif >= -1 THEN deg_dif + 1 ELSE 0

qdiv_frame(lhs_coeffs, rhs_coeffs, f) ==
    [pc |-> "qdiv_",
     rem |-> lhs_coeffs,
     quotient |-> [i \in 1..quotient_len(Len(lhs_coeffs) - Len(rhs_coeffs)) |-> zero(f)],
     rhs_coeffs |-> rhs_coeffs,
     g_msc_inv |-> inverse(rhs_coeffs[Len(rhs_coeffs)])]

QdivReturn ==
    /\ frame = Idle
    /\ ~qdiv_enters(lhs, rhs)
    /\ frame' = Done
    /\ call' = "qdiv"
    /\ out' = qdiv(lhs, rhs)
    /\ UNCHANGED <<a, b, raw, exponent, lhs, rhs, coeffs, x, y, overflow_checks, fed>>

QdivEnter ==
    /\ frame = Idle
    /\ qdiv_enters(lhs, rhs)
    /\ frame' = qdiv_frame(remove_trailing_elements(lhs.coeffs, zero(lhs.field)),
                           remove_trailing_elements(rhs.coeffs, zero(rhs.field)),
                           lhs.field)
    /\ UNCHANGED <<call, out, a, b, raw, exponent, lhs, rhs, coeffs, x, y, overflow_checks, fed>>

\* one pass of `while deg_dif >= 0`, given tmp and deg_dif
qdiv_pass(fr, tmp, deg_dif, f) ==
    [fr EXCEPT !.rem = qdiv_truncate(qdiv_for(fr.rem, deg_dif, tmp, fr.rhs_coeffs), deg_dif, f),
               !.quotient = [fr.quotient EXCEPT ![deg_dif + 1] = FieldElement_add_assign(@, tmp)]]

qdiv_running(fr) ==
    /\ ~HasPanic(fr.rem)
    /\ ~HasPanic(fr.quotient)
    /\ Len(fr.rem) - Len(fr.rhs_coeffs) >= 0

QdivStep ==
    /\ frame.pc = "qdiv_"
    /\ qdiv_running(frame)
    /\ frame' = qdiv_pass(frame, FieldElement_mul(frame.rem[Len(frame.rem)], frame.g_msc_inv),
                          Len(frame.rem) - Len(frame.rhs_coeffs), lhs.field)
    /\ UNCHANGED <<call, out, a, b, raw, exponent, lhs, rhs, coeffs, x, y, overflow_checks, fed>>

QdivExit ==
    /\ frame.pc = "qdiv_"
    /\ ~qdiv_running(frame)
    /\ frame' = Done
    /\ call' = "qdiv"
    /\ out' = qdiv_result(frame, lhs)
    /\ UNCHANGED <<a, b, raw, exponent, lhs, rhs, coeffs, x, y, overflow_checks, fed>>

NextLoops ==
    \/ InverseEnter \/ InverseStep \/ InverseExit
    \/ PowEnter \/ PowStep \/ PowExit
    \/ QdivReturn \/ QdivEnter \/ QdivStep \/ QdivExit

SpecLoops == InitLoops /\ [][NextLoops]_vars

\* a loop that can take a step or leave is not held up for ever
SpecLoopsFair == InitLoops /\ [][NextLoops]_vars /\ WF_vars(NextLoops)

\* the stepped loops return what the operators inverse, pow and qdiv return
LoopsAgree ==
    /\ call = "inverse" => out = inverse(a)
    /\ call = "pow" => out = pow(a, exponent)
    /\ call = "qdiv" => out = qdiv(lhs, rhs)

(***************************************************************************)
(* Polynomials as mathematical objects: the sequence of residues of the    *)
(* coefficients, compared after dropping zeros from the high end.          *)
(***************************************************************************)
Residues(p) == [i \in DOMAIN p.coeffs |-> p.coeffs[i].val]

RECURSIVE Normalized(_)
Normalized(vs) ==
    IF vs = <<>> THEN <<>>
    ELSE IF vs[Len(vs)] = 0 THEN Normalized(SubSeq(vs, 1, Len(vs) - 1))
    ELSE vs

At(vs, k) == IF k \in DOMAIN vs THEN vs[k] ELSE 0

\* coefficient k (from 1) of the product of us and vs as integer polynomials:
\* the sum of us[i] * vs[k + 1 - i] over i = from..k
RECURSIVE ConvolutionFrom(_, _, _, _)
ConvolutionFrom(us, vs, k, from) ==
    IF from > k THEN 0
    ELSE At(us, from) * At(vs, k + 1 - from) + ConvolutionFrom(us, vs, k, from + 1)

Convolution(us, vs, k) == ConvolutionFrom(us, vs, k, 1)

ProductMod(us, vs, m) ==
    IF us = <<>> \/ vs = <<>> THEN <<>>
    ELSE [k \in 1..(Len(us) + Len(vs) - 1) |-> Convolution(us, vs, k) % m]

SumMod(us, vs, m) == [k \in 1..Max(Len(us), Len(vs)) |-> (At(us, k) + At(vs, k)) % m]

RECURSIVE Horner(_, _, _, _)
Horner(vs, i, pt, m) == IF i > Len(vs) THEN 0 ELSE (vs[i] + pt * Horner(vs, i + 1, pt, m)) % m

\* every coefficient lies in the field the polynomial refers to
WellFormed(p) == \A i \in DOMAIN p.coeffs : p.coeffs[i].field = p.field

SameDomain(p, q) == p.field = q.field /\ p.var = q.var

NormalForm(p) ==
    p.coeffs = <<>> \/ p.coeffs[Len(p.coeffs)].val # GaloisField(p.field).zero

(***************************************************************************)
(* Claims.                                                                 *)
(***************************************************************************)

\* C1: every polynomial the operations hand out or take in is in normal form:
\* its coefficient vector is empty or ends in a non-zero element.
C1_NormalFormEverywhere ==
    /\ NormalForm(lhs)
    /\ NormalForm(rhs)
    /\ IsPolynomial(out) => NormalForm(out)
    /\ IsQuotRem(out) => NormalForm(out.quot) /\ NormalForm(out.rem)

\* C2: for p built by Polynomial::new, p + (-p) == the empty polynomial.
C2_AddNegIsZero ==
    (/\ call = "add"
     /\ lhs \in Operands
     /\ WellFormed(lhs)
     /\ ~IsPanic(Polynomial_neg(lhs))
     /\ rhs = Polynomial_neg(lhs))
    => /\ IsPolynomial(out)
       /\ Polynomial_eq(out, Polynomial_new(<<>>, lhs.field, lhs.var))

\* C3: lhs * rhs is the schoolbook convolution reduced modulo the modulus:
\* empty when an operand is the zero polynomial, otherwise of degree
\* deg(lhs) + deg(rhs).
C3_MulIsConvolution ==
    (/\ call = "mul"
     /\ SameDomain(lhs, rhs)
     /\ WellFormed(lhs)
     /\ WellFormed(rhs))
    => /\ IsPolynomial(out)
       /\ Residues(out) = Normalized(ProductMod(Residues(lhs), Residues(rhs), k_modulus(lhs.field)))
       /\ (Normalized(Residues(lhs)) = <<>> \/ Normalized(Residues(rhs)) = <<>>)
            => out.coeffs = <<>>
       /\ (Normalized(Residues(lhs)) # <<>> /\ Normalized(Residues(rhs)) # <<>>)
            => deg(out) = (Len(Normalized(Residues(lhs))) - 1)
                          + (Len(Normalized(Residues(rhs))) - 1)

\* C4: for a dividend p and a non-zero divisor q over one field, qdiv returns
\* (quotient, remainder) with p = quotient*q + remainder as polynomials and
\* deg(remainder) < deg(q); the quotient is empty and the remainder is p when
\* deg(p) < deg(q), and both are empty when p is the zero polynomial.
C4_QdivQuotientRemainder ==
    (/\ call = "qdiv"
     /\ SameDomain(lhs, rhs)
     /\ WellFormed(lhs)
     /\ WellFormed(rhs)
     /\ Normalized(Residues(rhs)) # <<>>)
    => /\ IsQuotRem(out)
       /\ LET m == k_modulus(lhs.field)
              p == Normalized(Residues(lhs))
              q == Normalized(Residues(rhs))
              quot == Residues(out.quot)
              remainder == Residues(out.rem)
          IN  /\ Normalized(SumMod(ProductMod(quot, q, m), remainder, m)) = p
              /\ Len(remainder) < Len(q)
              /\ NormalForm(out.quot) /\ NormalForm(out.rem)
              /\ Len(p) < Len(q) => quot = <<>> /\ remainder = p
              /\ p = <<>> => quot = <<>> /\ remainder = <<>>

C4_Witness ==
    /\ call = "qdiv"
    /\ IsQuotRem(out)
    /\ Len(out.quot.coeffs) >= 2
    /\ out.rem.coeffs # <<>>
    /\ Len(rhs.coeffs) >= 2

\* C5: add, sub, mul, compose, qdiv and div panic whenever the operands refer
\* to different Field instances or carry different variable names.
C5_MismatchPanics ==
    (/\ call \in {"add", "sub", "mul", "compose", "qdiv", "div"}
     /\ ~SameDomain(lhs, rhs))
    => IsPanic(out)

\* C6: Polynomial::new panics when a coefficient lies in a field other than
\* the one passed, so the coefficients of a constructed polynomial all lie in
\* the polynomial's own field.
C6_NewChecksPassedField ==
    (call = "new" /\ IsPolynomial(out))
    => /\ \A i \in DOMAIN coeffs : coeffs[i].field = out.field
       /\ WellFormed(out)

\* C7: for equal-length, non-empty samples over one field with pairwise
\* distinct x, interpolate returns a polynomial of degree < len(x) that takes
\* the value y[i] at x[i].
C7_InterpolateFits ==
    (/\ call = "interpolate"
     /\ x # <<>>
     /\ Len(x) = Len(y)
     /\ \A i \in DOMAIN x : x[i].field = x[1].field /\ y[i].field = x[1].field
     /\ \A i, j \in DOMAIN x : i # j => x[i].val # x[j].val)
    => /\ IsPolynomial(out)
       /\ deg(out) < Len(x)
       /\ \A i \in DOMAIN x :
            Horner(Residues(out), 1, x[i].val, k_modulus(x[1].field)) = y[i].val

\* C8: in a prime field, e.inverse() returns for every non-zero e and
\* e * e.inverse() == one.
C8_InverseTimesElementIsOne ==
    (/\ call = "inverse"
     /\ a.field \in PrimeFields
     /\ a.val # 0)
    => /\ ~IsPanic(out)
       /\ ~IsPanic(FieldElement_mul(a, out))
       /\ FieldElement_eq(FieldElement_mul(a, out), one(a.field))

C8_Witness ==
    /\ call = "inverse"
    /\ a.field \in PrimeFields
    /\ a.val > 1
    /\ ~IsPanic(out)
    /\ out.val # a.val

\* C9: inverse() aborts for the value 0 and for a value that has no inverse
\* modulo the modulus; an element v it returns satisfies value*v = 1 modulo
\* the modulus.
C9_InverseNeverWrong ==
    call = "inverse"
    => LET m == k_modulus(a.field)
       IN  /\ a.val = 0 => IsPanic(out)
           /\ (~\E v \in 0..(m - 1) : (a.val * v) % m = 1) => IsPanic(out)
           /\ ~IsPanic(out) => /\ out.field = a.field
                               /\ out.val \in 0..(m - 1)
                               /\ (a.val * out.val) % m = 1

C9_Witness ==
    /\ call = "inverse"
    /\ a.field = "F3"
    /\ a.val > 1
    /\ IsPanic(out)

\* C10: new_element(n) is the canonical residue of n: 0 <= v < modulus,
\* v = n modulo the modulus, and n + k*modulus gives the same v for every k.
C10_NewElementCanonical ==
    call = "new_element"
    => LET m == k_modulus(out.field)
       IN  /\ out.val \in 0..(m - 1)
           /\ (out.val - raw) % m = 0
           /\ \A k \in (-MaxK)..MaxK : new_element(out.field, raw + k * m).val = out.val

C10_Witness ==
    /\ call = "new_element"
    /\ raw < -k_modulus(out.field)
    /\ out.val > 0

\* C11: for canonical a, b of one field, a + b, a - b, -a and a * b (and the
\* +=, -=, *= forms) return the canonical residue of the integer sum,
\* difference, negation and product in both build profiles: nothing
\* overflows the machine word and nothing wraps below zero.
C11_Step ==
    LET m == k_modulus(a.field)
    IN  /\ call' = "fe_neg" => out' = FieldElement((0 - a.val) % m, a.field)
        /\ a.field = b.field =>
            /\ call' = "fe_add" => out' = FieldElement((a.val + b.val) % m, a.field)
            /\ call' = "fe_sub" => out' = FieldElement((a.val - b.val) % m, a.field)
            /\ call' = "fe_mul" => out' = FieldElement((a.val * b.val) % m, a.field)
            /\ call' = "fe_add_assign" =>
                   out' = Unit /\ a' = FieldElement((a.val + b.val) % m, a.field)
            /\ call' = "fe_sub_assign" =>
                   out' = Unit /\ a' = FieldElement((a.val - b.val) % m, a.field)
            /\ call' = "fe_mul_assign" =>
                   out' = Unit /\ a' = FieldElement((a.val * b.val) % m, a.field)

C11_CanonicalArithmetic == [][C11_Step]_vars

C11_Witness ==
    /\ call = "fe_sub"
    /\ a.field = b.field
    /\ a.val < b.val
    /\ ~IsPanic(out)
    /\ out.val = k_modulus(a.field) - (b.val - a.val)

\* the n-fold product of v modulo m (the empty product is 1)
RECURSIVE PowerMod(_, _, _)
PowerMod(v, k, m) == IF k = 0 THEN 1 % m ELSE (v * PowerMod(v, k - 1, m)) % m

\* C12: e.pow(n) is the n-fold field product of e, e.pow(0) is one for every
\* e (zero included), and e.pow(n) * e.pow(m) == e.pow(n + m).
C12_PowIsRepeatedProduct ==
    call = "pow"
    => /\ out = FieldElement(PowerMod(a.val, exponent, k_modulus(a.field)), a.field)
       /\ exponent = 0 => out = one(a.field)
       /\ \A m \in 0..MaxExp :
            FieldElement_eq(FieldElement_mul(out, pow(a, m)), pow(a, exponent + m))

C12_Witness ==
    /\ call = "pow"
    /\ exponent >= 3
    /\ a.val >= 2
    /\ ~IsPanic(out)
    /\ out.val >= 2

\* C13: a field is known by its instance, not by its modulus: +, -, *, / and
\* +=, -=, *= on elements of two instances panic, also when the instances
\* have the same modulus;
\* == is true exactly for the same instance and the same value.
C13_FieldIdentityByInstance ==
    /\ (/\ call \in {"fe_add", "fe_sub", "fe_mul", "fe_div",
                      "fe_add_assign", "fe_sub_assign", "fe_mul_assign"}
        /\ a.field # b.field)
       => IsPanic(out)
    /\ call = "fe_eq" => out.eq = (a.field = b.field /\ a.val = b.val)

C13_Witness ==
    /\ call = "fe_eq"
    /\ a.field # b.field
    /\ k_modulus(a.field) = k_modulus(b.field)
    /\ a.val = b.val
    /\ out.eq = FALSE

\* third operands for p: the constructed operands of p's field and label, of
\* every length, whose coefficients all hold the largest value
Addends(p) ==
    {r \in Operands :
        /\ SameDomain(r, p)
        /\ \A i \in DOMAIN r.coeffs :
             r.coeffs[i] = FieldElement(k_modulus(p.field) - 1, p.field)}

\* C14: over one field and label, p + q == q + p, (p + q) + r == p + (q + r),
\* and p + 0 == p == 0 + p for the empty polynomial 0.
C14_AddCommutativeMonoid ==
    (/\ call = "add"
     /\ SameDomain(lhs, rhs)
     /\ WellFormed(lhs)
     /\ WellFormed(rhs))
    => /\ IsPolynomial(out)
       /\ Polynomial_eq(out, Polynomial_add(rhs, lhs))
       /\ \A r \in Addends(lhs) :
            Polynomial_eq(Polynomial_add(out, r), Polynomial_add(lhs, Polynomial_add(rhs, r)))
       /\ rhs.coeffs = <<>> => Polynomial_eq(out, lhs)
       /\ lhs.coeffs = <<>> => Polynomial_eq(out, rhs)

C14_Witness ==
    /\ call = "add"
    /\ SameDomain(lhs, rhs)
    /\ WellFormed(lhs) /\ WellFormed(rhs)
    /\ Len(lhs.coeffs) > Len(rhs.coeffs)
    /\ rhs.coeffs # <<>>
    /\ IsPolynomial(out)
    /\ \E r \in Addends(lhs) : Len(r.coeffs) = Len(lhs.coeffs)

\* the k-th power of the polynomial q, and the sum over k (from position
\* `from`) of vs[k] * q^(k-1), both with coefficients modulo m
RECURSIVE PolyPower(_, _, _)
PolyPower(q, k, m) == IF k = 0 THEN <<1 % m>> ELSE ProductMod(q, PolyPower(q, k - 1, m), m)

RECURSIVE SubstituteFrom(_, _, _, _)
SubstituteFrom(vs, q, from, m) ==
    IF from > Len(vs) THEN <<>>
    ELSE SumMod(ProductMod(<<vs[from]>>, PolyPower(q, from - 1, m), m),
                SubstituteFrom(vs, q, from + 1, m), m)

\* C15: over one field and label, outer.compose(inner) is the substitution of
\* inner into outer: the sum over k of outer[k] * inner^k in the field.
C15_ComposeIsSubstitution ==
    (/\ call = "compose"
     /\ SameDomain(lhs, rhs)
     /\ WellFormed(lhs)
     /\ WellFormed(rhs))
    => /\ IsPolynomial(out)
       /\ Normalized(Residues(out))
            = Normalized(SubstituteFrom(Residues(lhs), Residues(rhs), 1, k_modulus(lhs.field)))

\* C16: qdiv(p, q) and p / q panic for every p when q is the zero polynomial:
\* its coefficient vector is empty or holds only zero elements.
C16_DivisionByZeroPanics ==
    (/\ call \in {"qdiv", "div"}
     /\ WellFormed(rhs)
     /\ Normalized(Residues(rhs)) = <<>>)
    => IsPanic(out)

C16_Witness ==
    /\ call = "qdiv"
    /\ SameDomain(lhs, rhs)
    /\ WellFormed(lhs) /\ WellFormed(rhs)
    /\ Len(rhs.coeffs) >= 2
    /\ Normalized(Residues(rhs)) = <<>>
    /\ IsPanic(out)
    /\ out.panic = "assertion failed: !rhs_coeffs.is_empty()"

\* C17: for p and a non-zero q built by Polynomial::new over one field and
\* label, p / q is the quotient of qdiv(p, q) when the remainder is the zero
\* polynomial, and then (p / q) * q == p; when the remainder is not zero,
\* p / q panics with 'not divisible'.
C17_ExactDivision ==
    (/\ call = "div"
     /\ SameDomain(lhs, rhs)
     /\ WellFormed(lhs) /\ WellFormed(rhs)
     /\ NormalForm(lhs) /\ NormalForm(rhs)
     /\ rhs.coeffs # <<>>)
    => /\ IsQuotRem(qdiv(lhs, rhs))
       /\ qdiv(lhs, rhs).rem.coeffs = <<>> =>
            /\ out = qdiv(lhs, rhs).quot
            /\ IsPolynomial(Polynomial_mul(out, rhs))
            /\ Polynomial_eq(Polynomial_mul(out, rhs), lhs)
       /\ qdiv(lhs, rhs).rem.coeffs # <<>> =>
            /\ IsPanic(out)
            /\ out.panic = "Polynomials are not divisible."

\* C18: interpolate returns no polynomial for a malformed input: empty or
\* unequal-length samples and samples over more than one field instance are
\* turned down by its two checks, and a repeated x panics as well.
C18_MalformedSamplesPanic ==
    call = "interpolate"
    => /\ (x = <<>> \/ y = <<>> \/ Len(x) # Len(y))
            => /\ IsPanic(out)
               /\ out.panic = "Impossible to establish a one-to-one correspondence between the definition and value areas."
       /\ (/\ x # <<>> /\ Len(x) = Len(y)
           /\ \E i \in DOMAIN x : x[i].field # x[1].field \/ y[i].field # x[1].field)
            => /\ IsPanic(out)
               /\ out.panic = "Not all elements are lay in the same field."
       /\ (\E i, j \in DOMAIN x : i # j /\ FieldElement_eq(x[i], x[j]))
            => IsPanic(out)

C18_Witness ==
    /\ call = "interpolate"
    /\ Len(x) = 2 /\ Len(y) = 2
    /\ \A i \in DOMAIN x : x[i].field = x[1].field /\ y[i].field = x[1].field
    /\ FieldElement_eq(x[1], x[2])
    /\ IsPanic(out)

\* C19: every loop terminates: each pass of the loop of inverse lowers new_r,
\* each pass of the loop of pow lowers n, each completed pass of the loop of
\* qdiv_ shortens the working remainder, and every call comes to its end.
C19_VariantDecreases ==
    /\ (frame.pc = "inverse" /\ frame'.pc = "inverse")
         => frame'.new_r >= 0 /\ frame'.new_r < frame.new_r
    /\ (frame.pc = "pow" /\ frame'.pc = "pow")
         => frame'.n >= 0 /\ frame'.n < frame.n
    /\ (/\ frame.pc = "qdiv_" /\ frame'.pc = "qdiv_"
        /\ ~HasPanic(frame'.rem) /\ ~HasPanic(frame'.quotient))
         => Len(frame'.rem) < Len(frame.rem)

C19_LoopsTerminate ==
    /\ [][C19_VariantDecreases]_vars
    /\ <>(frame.pc = "done")

C19_Witness ==
    /\ frame.pc = "qdiv_"
    /\ Len(frame.rem) <= Len(lhs.coeffs) - 3
    /\ Len(frame.rem) >= Len(frame.rhs_coeffs)

\* res_raw_coeffs as the loops of l * r leave it, or the overflow panic
MulAccumulators(l, r) ==
    mul_loop(Residues(l), Residues(r), [i \in 1..Max(deg(l) + deg(r) + 1, 0) |-> 0], 1, 1)

\* C20: in l * r over canonical coefficients the accumulator never overflows:
\* every res_raw_coeffs[i + j] ends as the integer convolution sum, below
\* 2^WordBits, in both build profiles.
C20_MulAccumulatorFits ==
    (/\ call = "mul"
     /\ SameDomain(lhs, rhs)
     /\ WellFormed(lhs)
     /\ WellFormed(rhs))
    => /\ ~IsPanic(MulAccumulators(lhs, rhs))
       /\ \A k \in DOMAIN MulAccumulators(lhs, rhs).vals :
            /\ MulAccumulators(lhs, rhs).vals[k] = Convolution(Residues(lhs), Residues(rhs), k)
            /\ Convolution(Residues(lhs), Residues(rhs), k) < WordMod

\* residues of a vector of field elements
Vals(cs) == [i \in DOMAIN cs |-> cs[i].val]

\* dividend == quotient * divisor + remainder for the partial quotient and the
\* working remainder of the running division, as polynomials over the field
C21_PartialIdentity ==
    Normalized(SumMod(ProductMod(Vals(frame.quotient), Vals(frame.rhs_coeffs),
                                 k_modulus(lhs.field)),
                      Vals(frame.rem), k_modulus(lhs.field)))
        = Normalized(Residues(lhs))

\* C21: at every iteration boundary of the long-division loop of qdiv_ the
\* working remainder is trimmed to its true degree (its vector is empty or
\* ends in a non-zero element, so the next pass reads a non-zero leading
\* coefficient), and dividend == quotient * divisor + remainder holds for the
\* partial quotient and the working remainder.
C21_RemainderTrimmed ==
    (/\ frame.pc = "qdiv_"
     /\ WellFormed(lhs)
     /\ WellFormed(rhs))
    => /\ frame.rem = <<>> \/ ~FieldElement_eq(frame.rem[Len(frame.rem)], zero(lhs.field))
       /\ C21_PartialIdentity


\* position k of p + q (sign 1) or p - q (sign -1) over the residues modulo m,
\* a position missing from an operand counting as zero
Coefficientwise(us, vs, sign, m) ==
    [k \in 1..Max(Len(us), Len(vs)) |-> (At(us, k) + sign * At(vs, k) + m) % m]

\* the vectors [1, 2, 3] and [2, 3, 4, 5, 6] of the add test and their sum,
\* reduced modulo m
ExampleVec(vs, f) == [k \in DOMAIN vs |-> FieldElement(vs[k] % k_modulus(f), f)]

ExampleSum ==
    Polynomial_add(Polynomial_new(ExampleVec(<<1, 2, 3>>, "F1"), "F1", "x"),
                   Polynomial_new(ExampleVec(<<2, 3, 4, 5, 6>>, "F1"), "F1", "x"))

\* C22: add, sub and neg are coefficient-wise with zero fill: for p and q over
\* one field, position k of p + q (p - q) holds p[k] + q[k] (p[k] - q[k]) in
\* the field, a position missing from the shorter operand counting as zero (so
\* positions beyond len(p) of p - q hold -q[k]), the result covers
\* max(len(p), len(q)) positions, (-p)[k] == -p[k], and
\* [1,2,3] + [2,3,4,5,6] == [3,5,7,5,6].
C22_CoefficientwiseZeroFill ==
    /\ (/\ call \in {"add", "sub"}
        /\ SameDomain(lhs, rhs)
        /\ WellFormed(lhs)
        /\ WellFormed(rhs))
       => /\ IsPolynomial(out)
          /\ WellFormed(out)
          /\ Len(out.coeffs) = Max(Len(lhs.coeffs), Len(rhs.coeffs))
          /\ Residues(out) = Coefficientwise(Residues(lhs), Residues(rhs),
                                             IF call = "add" THEN 1 ELSE -1,
                                             k_modulus(lhs.field))
    /\ (call = "neg" /\ WellFormed(lhs))
       => /\ IsPolynomial(out)
          /\ WellFormed(out)
          /\ Residues(out) = Coefficientwise(<<>>, Residues(lhs), -1, k_modulus(lhs.field))
    /\ call = "add"
       => Polynomial_eq(ExampleSum,
                        Polynomial_new(ExampleVec(<<3, 5, 7, 5, 6>>, "F1"), "F1", "x"))

\* p - q with q the longer operand: the last position of the result holds
\* -q[k], which differs from q[k]
C22_Witness ==
    /\ call = "sub"
    /\ SameDomain(lhs, rhs)
    /\ WellFormed(lhs)
    /\ WellFormed(rhs)
    /\ lhs.coeffs # <<>>
    /\ Len(lhs.coeffs) < Len(rhs.coeffs)
    /\ IsPolynomial(out)
    /\ Len(out.coeffs) = Len(rhs.coeffs)
    /\ out.coeffs[Len(out.coeffs)] = FieldElement_neg(rhs.coeffs[Len(rhs.coeffs)])
    /\ out.coeffs[Len(out.coeffs)] # rhs.coeffs[Len(rhs.coeffs)]

=============================================================================
